---- MODULE Spec2Model ----
(***************************************************************************)
(* Stride detection of fix-pixelart (src/src/main.rs): the run-length scan *)
(* of a frame (get_smallest_stride_phase1), the reduction of the candidate *)
(* set (get_smallest_stride_phase2), the aggregation over the frames of an *)
(* animation, and the callers that turn the stride into a new size.        *)
(***************************************************************************)
EXTENDS Integers, Sequences, FiniteSets, TLC

VARIABLES
    pc,                        \* "start", "failed" (process::exit(1)) or "done"
    mode,                      \* "still", "gif" or "reduce": which entry point runs
    frames,                    \* the decoded frames (a still image is one frame)
    ignore_border,             \* Args.ignore_border
    only_analyze_first_frame,  \* Args.only_analyze_first_frame
    strides,                   \* the HashSet<u32> of candidate run lengths
    proved,                    \* the value the last get_smallest_stride_phase1 returned
    iter,                      \* number of frames the animation loop has consumed
    min_stride,                \* the stride handed to the caller
    new_width, new_height,     \* the size resize_still_image computes
    original, factor, border   \* how the input was built: the image that was
                               \* magnified, the factor, the border colour (or None)

vars == <<pc, mode, frames, ignore_border, only_analyze_first_frame, strides,
          proved, iter, min_stride, new_width, new_height, original, factor, border>>

None == "none"

-----------------------------------------------------------------------------
(* Bounds of the inputs.                                                   *)

MaxArea == 7        \* arbitrary frames: width * height <= MaxArea
MaxOrigDim == 2     \* magnified originals: width, height <= MaxOrigDim
MaxFactor == 3      \* magnification factors 2..MaxFactor
MaxCand == 12       \* candidate sets: subsets of 0..MaxCand
MaxFrames == 3      \* animations: at most MaxFrames frames
MaxWide == 5        \* wide frames: width <= MaxWide

-----------------------------------------------------------------------------
(* Colours and images.                                                     *)

\* Rgba<u8>: <<r, g, b, a>>.  Two fully transparent colours (one of them the
\* Rgba([0, 0, 0, 0]) the scan starts from) and opaque ones, one of them with
\* a red channel of 0.
FrameColors == {<<0, 0, 0, 0>>, <<255, 0, 0, 0>>, <<0, 0, 0, 255>>, <<255, 255, 255, 255>>}
Colors == FrameColors \cup {<<0, 255, 0, 255>>}
OpaqueColors == {c \in Colors : c[4] > 0}

\* A DynamicImage: its dimensions and its pixels, row by row.
Image(w, h, p) == [width |-> w, height |-> h, px |-> p]

\* The pixel buffers of the w x h images with colours in C.
Pixels(w, h, C) == [1..(w * h) -> C]

\* img.get_pixel(x, y)
get_pixel(img, x, y) == img.px[y * img.width + x + 1]

-----------------------------------------------------------------------------
(* get_smallest_stride_phase1                                              *)

\* CurrentStride { color: Rgba([0, 0, 0, 0]), stride: 0 }
CurrentStride == [color |-> <<0, 0, 0, 0>>, stride |-> 0]

\* Variant: the run is inserted before its length is tested.
CloseStrideInsertFirst(curr, set) ==
    IF curr.stride > 0 /\ curr.color[4] > 0
    THEN [ok |-> curr.stride # 1, strides |-> set \cup {curr.stride}]
    ELSE [ok |-> curr.stride # 1, strides |-> set]

\* Variant: the red channel is tested in place of alpha.
CloseStrideRedChannel(curr, set) ==
    IF curr.stride = 1 THEN [ok |-> FALSE, strides |-> set]
    ELSE IF curr.stride > 0 /\ curr.color[1] > 0
         THEN [ok |-> TRUE, strides |-> set \cup {curr.stride}]
         ELSE [ok |-> TRUE, strides |-> set]

\* Variant: transparent runs are inserted too.
CloseStrideNoAlpha(curr, set) ==
    IF curr.stride = 1 THEN [ok |-> FALSE, strides |-> set]
    ELSE IF curr.stride > 0
         THEN [ok |-> TRUE, strides |-> set \cup {curr.stride}]
         ELSE [ok |-> TRUE, strides |-> set]

\* The closing of a run: a run of length 1 ends the scan with false, a run
\* with alpha > 0 is inserted.  [ok, strides].
CloseStride(curr, set) ==
    IF curr.stride = 1 THEN [ok |-> FALSE, strides |-> set]
    ELSE IF curr.stride > 0 /\ curr.color[4] > 0
         THEN [ok |-> TRUE, strides |-> set \cup {curr.stride}]
         ELSE [ok |-> TRUE, strides |-> set]

\* Variant: >= in place of >.
NotBorderInclusive(ib, pos, curr) == ~ib \/ pos >= curr.stride

\* `if !ignore_border || pos > curr.stride`: the run that starts the line is
\* skipped when borders are ignored.
NotBorder(ib, pos, curr) == ~ib \/ pos > curr.stride

\* The block guarded by the border test: c is [ok, strides].
CloseUnlessBorder(ib, pos, curr, set) ==
    IF NotBorder(ib, pos, curr) THEN CloseStride(curr, set)
    ELSE [ok |-> TRUE, strides |-> set]

\* The scan's state s: [ok, strides, curr_x, curr_y]; ok = FALSE once the
\* function has returned false.

\* Variant: the new run starts at length 0.
RestartXAtZero(s, c, color) ==
    IF ~c.ok THEN [s EXCEPT !.ok = FALSE, !.strides = c.strides]
    ELSE [s EXCEPT !.strides = c.strides, !.curr_x = [color |-> color, stride |-> 0]]

\* `curr_x.stride = 1; curr_x.color = color;` after the closing c of the run.
RestartX(s, c, color) ==
    IF ~c.ok THEN [s EXCEPT !.ok = FALSE, !.strides = c.strides]
    ELSE [s EXCEPT !.strides = c.strides, !.curr_x = [color |-> color, stride |-> 1]]

\* `curr_y.stride = 1; curr_y.color = color;` after the closing c of the run.
RestartY(s, c, color, x) ==
    IF ~c.ok THEN [s EXCEPT !.ok = FALSE, !.strides = c.strides]
    ELSE [s EXCEPT !.strides = c.strides,
                   !.curr_y[x + 1] = [color |-> color, stride |-> 1]]

\* The horizontal half of the loop body.
ScanX(s, color, x, ib) ==
    IF color = s.curr_x.color
    THEN [s EXCEPT !.curr_x.stride = @ + 1]
    ELSE RestartX(s, CloseUnlessBorder(ib, x, s.curr_x, s.strides), color)

\* The vertical half of the loop body (not reached after a return).
ScanY(s, color, x, y, ib) ==
    IF ~s.ok THEN s
    ELSE IF s.curr_y[x + 1].color = color
    THEN [s EXCEPT !.curr_y[x + 1].stride = @ + 1]
    ELSE RestartY(s, CloseUnlessBorder(ib, y, s.curr_y[x + 1], s.strides), color, x)

\* The loop body for the pixel (x, y).
ScanPixel(img, ib, s, x, y) ==
    ScanY(ScanX(s, get_pixel(img, x, y), x, ib), get_pixel(img, x, y), x, y, ib)

\* `for x in 0..img.width()`, from column x on.
RECURSIVE ScanRow(_, _, _, _, _)
ScanRow(img, ib, s, y, x) ==
    IF ~s.ok \/ x >= img.width THEN s
    ELSE ScanRow(img, ib, ScanPixel(img, ib, s, x, y), y, x + 1)

\* The state after the closing c of a run at the end of a line.
Closed(s, c) == [s EXCEPT !.ok = c.ok, !.strides = c.strides]

\* Variant: the run that ends a row is never closed.
RowEndKeep(s, ib) == s

\* The run that ends a row, closed when borders are not ignored.
RowEnd(s, ib) ==
    IF ~s.ok \/ ib THEN s
    ELSE Closed(s, CloseStride(s.curr_x, s.strides))

\* `for y in 0..img.height()`, from row y on.
RECURSIVE ScanRows(_, _, _, _)
ScanRows(img, ib, s, y) ==
    IF ~s.ok \/ y >= img.height THEN s
    ELSE ScanRows(img, ib,
                  RowEnd(ScanRow(img, ib, [s EXCEPT !.curr_x = CurrentStride], y, 0), ib),
                  y + 1)

\* `for curr_y in &curr_y`, from column index i on: the runs that end the
\* columns.
RECURSIVE ColumnEnds(_, _)
ColumnEnds(s, i) ==
    IF ~s.ok \/ i > Len(s.curr_y) THEN s
    ELSE ColumnEnds(Closed(s, CloseStride(s.curr_y[i], s.strides)), i + 1)

\* `if !ignore_border { for curr_y in &curr_y ... } return true;`
\* [ok |-> the returned bool, strides |-> the set as the call leaves it]
Phase1Return(s, ib) ==
    IF s.ok /\ ~ib
    THEN [ok |-> ColumnEnds(s, 1).ok, strides |-> ColumnEnds(s, 1).strides]
    ELSE [ok |-> s.ok, strides |-> s.strides]

get_smallest_stride_phase1(img, set, ib) ==
    Phase1Return(ScanRows(img, ib,
                          [ok |-> TRUE, strides |-> set, curr_x |-> CurrentStride,
                           curr_y |-> [i \in 1..img.width |-> CurrentStride]],
                          0),
                 ib)

-----------------------------------------------------------------------------
(* get_smallest_stride_phase2                                              *)

Min(S) == CHOOSE m \in S : \A k \in S : m <= k

\* strides.iter().cloned().collect::<Vec<_>>() followed by sort()
RECURSIVE SortedVec(_)
SortedVec(S) == IF S = {} THEN <<>> ELSE <<Min(S)>> \o SortedVec(S \ {Min(S)})

\* The function on the sorted Vec v, the iterator at skip + 1: a leading 0
\* is skipped.
Phase2From(v, skip) ==
    IF Len(v) <= skip THEN 1
    ELSE IF v[skip + 1] = 1 THEN 1
    ELSE IF \E i \in (skip + 2)..Len(v) : v[i] % v[skip + 1] # 0 THEN 1
    ELSE v[skip + 1]

Phase2Sorted(v) == Phase2From(v, IF Len(v) > 0 /\ v[1] = 0 THEN 1 ELSE 0)

RECURSIVE Gcd(_, _)
Gcd(a, b) == IF b = 0 THEN a ELSE Gcd(b, a % b)

RECURSIVE GcdOf(_)
GcdOf(S) == IF S = {} THEN 0 ELSE Gcd(GcdOf(S \ {Min(S)}), Min(S))

\* Variant: the greatest common divisor of the candidates.
get_smallest_stride_phase2_gcd(set) == IF GcdOf(set) <= 1 THEN 1 ELSE GcdOf(set)

get_smallest_stride_phase2(set) == Phase2Sorted(SortedVec(set))

-----------------------------------------------------------------------------
(* get_smallest_stride                                                     *)

\* p is what phase 1 returned.  [min_stride, ok, strides]: the result, and
\* phase 1's return value and set.
ReduceIfProved(p) ==
    [min_stride |-> IF ~p.ok THEN 1 ELSE get_smallest_stride_phase2(p.strides),
     ok |-> p.ok, strides |-> p.strides]

get_smallest_stride(img, ib) ==
    ReduceIfProved(get_smallest_stride_phase1(img, {}, ib))

-----------------------------------------------------------------------------
(* The callers.                                                            *)

Start(m, fs, ib, ff, set, o, n, b) ==
    /\ pc = "start" /\ mode = m /\ frames = fs
    /\ ignore_border = ib /\ only_analyze_first_frame = ff
    /\ strides = set /\ proved = None /\ iter = 0
    /\ min_stride = 0 /\ new_width = 0 /\ new_height = 0
    /\ original = o /\ factor = n /\ border = b

\* The caller's test of the stride ms of an image img: exit(1) on a stride
\* <= 1, else the new size.
NewSize(img, ms) ==
    IF ms <= 1
    THEN pc' = "failed" /\ UNCHANGED <<new_width, new_height>>
    ELSE /\ pc' = "done"
         /\ new_width' = img.width \div ms
         /\ new_height' = img.height \div ms

\* r is what get_smallest_stride returned.
Stride(r) == strides' = r.strides /\ proved' = r.ok /\ min_stride' = r.min_stride

\* resize_still_image, up to the new size (the output path and the encoding
\* are I/O).
ResizeStillImage ==
    /\ pc = "start" /\ mode = "still"
    /\ Stride(get_smallest_stride(frames[1], ignore_border))
    /\ NewSize(frames[1], min_stride')
    /\ UNCHANGED <<mode, frames, ignore_border, only_analyze_first_frame, iter,
                   original, factor, border>>

\* A call of get_smallest_stride_phase2 on a set of its own.
Reduce ==
    /\ pc = "start" /\ mode = "reduce"
    /\ min_stride' = get_smallest_stride_phase2(strides)
    /\ pc' = "done"
    /\ UNCHANGED <<mode, frames, ignore_border, only_analyze_first_frame, strides,
                   proved, iter, new_width, new_height, original, factor, border>>

\* resize_as_animated_gif with only_analyze_first_frame, up to the test of
\* the stride: get_smallest_stride on the first frame, 0 when there is none.
GifFirstFrame ==
    /\ pc = "start" /\ mode = "gif" /\ only_analyze_first_frame
    /\ IF frames # <<>>
       THEN Stride(get_smallest_stride(frames[1], ignore_border)) /\ iter' = 1
       ELSE min_stride' = 0 /\ UNCHANGED <<strides, proved, iter>>
    /\ pc' = IF min_stride' <= 1 THEN "failed" ELSE "done"
    /\ UNCHANGED <<mode, frames, ignore_border, only_analyze_first_frame,
                   new_width, new_height, original, factor, border>>

\* p is what get_smallest_stride_phase1 returned for the frame: a false
\* returns Ok(1), which resize_as_animated_gif takes as a failure.
Scanned(p) ==
    /\ strides' = p.strides
    /\ proved' = p.ok
    /\ IF ~p.ok
       THEN min_stride' = 1 /\ pc' = "failed"
       ELSE UNCHANGED <<min_stride, pc>>

\* Variant: the loop goes on after a false from phase 1.
AnimScanFrameNoReturn ==
    /\ pc = "start" /\ mode = "gif" /\ ~only_analyze_first_frame
    /\ iter < Len(frames)
    /\ strides' = get_smallest_stride_phase1(frames[iter + 1], strides, ignore_border).strides
    /\ proved' = get_smallest_stride_phase1(frames[iter + 1], strides, ignore_border).ok
    /\ iter' = iter + 1
    /\ UNCHANGED <<min_stride, pc>>
    /\ UNCHANGED <<mode, frames, ignore_border, only_analyze_first_frame,
                   new_width, new_height, original, factor, border>>

\* One turn of the loop of get_smallest_stride_from_animation: the next frame
\* is scanned into the shared set.
AnimScanFrame ==
    /\ pc = "start" /\ mode = "gif" /\ ~only_analyze_first_frame
    /\ iter < Len(frames)
    /\ Scanned(get_smallest_stride_phase1(frames[iter + 1], strides, ignore_border))
    /\ iter' = iter + 1
    /\ UNCHANGED <<mode, frames, ignore_border, only_analyze_first_frame,
                   new_width, new_height, original, factor, border>>

\* The end of the loop: phase 2 on the shared set, and the caller's test.
AnimReduce ==
    /\ pc = "start" /\ mode = "gif" /\ ~only_analyze_first_frame
    /\ iter = Len(frames)
    /\ min_stride' = get_smallest_stride_phase2(strides)
    /\ pc' = IF min_stride' <= 1 THEN "failed" ELSE "done"
    /\ UNCHANGED <<mode, frames, ignore_border, only_analyze_first_frame, strides,
                   proved, iter, new_width, new_height, original, factor, border>>

-----------------------------------------------------------------------------
(* The inputs.                                                             *)

\* The sizes of arbitrary frames: at most MaxArea pixels, and 0 x 0.
StillDims == {<<0, 0>>}
             \cup {d \in (1..MaxArea) \X (1..MaxArea) : d[1] * d[2] <= MaxArea}

\* Each pixel of o replicated into an n x n block.
Upscale(o, n) ==
    [width |-> o.width * n, height |-> o.height * n,
     px |-> [k \in 1..(o.width * n * o.height * n) |->
               get_pixel(o, ((k - 1) % (o.width * n)) \div n,
                            ((k - 1) \div (o.width * n)) \div n)]]

\* img inside a frame of colour b, one pixel wide.
AddBorder(img, b) ==
    [width |-> img.width + 2, height |-> img.height + 2,
     px |-> [k \in 1..((img.width + 2) * (img.height + 2)) |->
               LET x == (k - 1) % (img.width + 2)
                   y == (k - 1) \div (img.width + 2)
               IN  IF x = 0 \/ y = 0 \/ x = img.width + 1 \/ y = img.height + 1
                   THEN b
                   ELSE get_pixel(img, x - 1, y - 1)]]

\* No two horizontally or vertically adjacent pixels share a colour.
NoAdjacentSame(o) ==
    \A x \in 0..(o.width - 1), y \in 0..(o.height - 1) :
        /\ x + 1 < o.width => get_pixel(o, x, y) # get_pixel(o, x + 1, y)
        /\ y + 1 < o.height => get_pixel(o, x, y) # get_pixel(o, x, y + 1)

OrigDims == (1..MaxOrigDim) \X (1..MaxOrigDim)
Factors == 2..MaxFactor

\* Wide frames: two colours, up to MaxWide x 2.
WideDims == (1..MaxWide) \X (1..2)
WideColors == {<<0, 0, 0, 0>>, <<0, 0, 0, 255>>}

InitStill ==
    \E d \in StillDims, ib \in BOOLEAN :
        \E p \in Pixels(d[1], d[2], FrameColors) :
            Start("still", <<Image(d[1], d[2], p)>>, ib, FALSE, {}, None, 0, None)

InitUpscale ==
    \E d \in OrigDims, n \in Factors :
        \E p \in Pixels(d[1], d[2], FrameColors) :
            /\ NoAdjacentSame(Image(d[1], d[2], p))
            /\ Start("still", <<Upscale(Image(d[1], d[2], p), n)>>, FALSE, FALSE, {},
                     Image(d[1], d[2], p), n, None)

InitBorder ==
    \E d \in OrigDims, n \in Factors, b \in Colors, ib \in BOOLEAN :
        \E p \in Pixels(d[1], d[2], OpaqueColors) :
            /\ NoAdjacentSame(Image(d[1], d[2], p))
            /\ Start("still", <<AddBorder(Upscale(Image(d[1], d[2], p), n), b)>>, ib,
                     FALSE, {}, Image(d[1], d[2], p), n, b)

InitWide ==
    \E d \in WideDims :
        \E p \in Pixels(d[1], d[2], WideColors) :
            Start("still", <<Image(d[1], d[2], p)>>, FALSE, FALSE, {}, None, 0, None)

InitReduce ==
    \E set \in SUBSET (0..MaxCand) :
        Start("reduce", <<>>, FALSE, FALSE, set, None, 0, None)

\* The frames of animations: one-colour and two-colour originals, magnified
\* (a factor of 1 leaves runs of length 1).
Seqs(S, n) == UNION {[1..k -> S] : k \in 0..n}
AnimOriginals ==
    {Image(1, 1, <<c>>) : c \in {<<0, 0, 0, 0>>, <<0, 0, 0, 255>>}}
    \cup {Image(2, 2, <<<<0, 0, 0, 255>>, c, <<0, 0, 0, 255>>, <<0, 0, 0, 255>>>>) :
             c \in {<<0, 0, 0, 255>>, <<255, 255, 255, 255>>}}
AnimFrames == {Upscale(o, n) : o \in AnimOriginals, n \in {1, 2, 3, 4}}

InitAnim ==
    \E fs \in Seqs(AnimFrames, MaxFrames), ib \in BOOLEAN :
        Start("gif", fs, ib, FALSE, {}, None, 0, None)

InitAll ==
    \/ \E fs \in Seqs(AnimFrames, MaxFrames), ib \in BOOLEAN, ff \in BOOLEAN :
          Start("gif", fs, ib, ff, {}, None, 0, None)
    \/ \E img \in AnimFrames, ib \in BOOLEAN :
          Start("still", <<img>>, ib, FALSE, {}, None, 0, None)

NextStill == ResizeStillImage
NextReduce == Reduce
NextAnim == AnimScanFrame \/ AnimReduce
NextAll == ResizeStillImage \/ GifFirstFrame \/ AnimScanFrame \/ AnimReduce

Spec == InitStill /\ [][NextStill]_vars
SpecUpscale == InitUpscale /\ [][NextStill]_vars
SpecBorder == InitBorder /\ [][NextStill]_vars
SpecWide == InitWide /\ [][NextStill]_vars
SpecReduce == InitReduce /\ [][NextReduce]_vars
SpecAnim == InitAnim /\ [][NextAnim]_vars
SpecAll == InitAll /\ [][NextAll]_vars

-----------------------------------------------------------------------------
(* Runs of a frame, stated on the pixels.                                  *)

Frame == frames[1]

RowLine(img, y) == [i \in 1..img.width |-> get_pixel(img, i - 1, y)]
ColLine(img, x) == [i \in 1..img.height |-> get_pixel(img, x, i - 1)]
Lines(img) == {RowLine(img, y) : y \in 0..(img.height - 1)}
              \cup {ColLine(img, x) : x \in 0..(img.width - 1)}

\* The maximal same-colour runs of a line, as <<first, last>>.
MaximalRuns(L) ==
    {r \in (1..Len(L)) \X (1..Len(L)) :
        /\ r[1] <= r[2]
        /\ \A i \in r[1]..r[2] : L[i] = L[r[1]]
        /\ r[1] = 1 \/ L[r[1] - 1] # L[r[1]]
        /\ r[2] = Len(L) \/ L[r[2] + 1] # L[r[1]]}

RunLen(r) == r[2] - r[1] + 1

\* With ignore_border, the run that starts a line and the run that ends it.
Suppressed(ib, L, r) == ib /\ (r[1] = 1 \/ r[2] = Len(L))

HasSingleton(img) ==
    \E L \in Lines(img) : \E r \in MaximalRuns(L) : RunLen(r) = 1

Degenerate(img) ==
    \/ img.width = 0 /\ img.height = 0
    \/ img.width = 1 /\ img.height = 1

-----------------------------------------------------------------------------
(* Claims.                                                                 *)

\* C1 as stated: the n-fold magnification of an original (of any colours, no
\* two adjacent pixels alike) is detected as n with ignore_border = false.
Orig_C1 == pc # "start" => min_stride = factor

\* C1, amended: the n-fold magnification of an original with no two adjacent
\* pixels alike and at least one pixel of alpha > 0 is detected as n with
\* ignore_border = false.
Thm_C1 ==
    (pc # "start" /\ \E k \in DOMAIN original.px : original.px[k][4] > 0)
        => (min_stride = factor /\ pc = "done")

Wit_C1 ==
    /\ pc = "done" /\ min_stride = factor /\ factor = 3
    /\ original.width = 2 /\ original.height = 2
    /\ \E k \in DOMAIN original.px : original.px[k][4] = 0

\* C2 as stated: a magnified opaque interior inside a one-pixel border of any
\* colour is detected as n with ignore_border and as 1 without.
Orig_C2 ==
    pc # "start" => /\ ignore_border => min_stride = factor
                    /\ ~ignore_border => min_stride = 1

\* C2, amended: the same, unless the original is a single pixel of the
\* border's colour (the whole image is then one colour).
Thm_C2 ==
    (pc # "start" /\ ~(original.width = 1 /\ original.height = 1
                       /\ original.px[1] = border))
        => /\ ignore_border => min_stride = factor
           /\ ~ignore_border => min_stride = 1

Wit_C2 ==
    /\ pc = "done" /\ ignore_border /\ min_stride = factor
    /\ original.width = 2 /\ original.height = 2
    /\ original.px[1] = border

\* C3: with ignore_border = false, a frame with a maximal run of length 1 in
\* a row or a column makes phase 1 return false and the stride 1.
Thm_C3 ==
    (pc # "start" /\ ~ignore_border /\ HasSingleton(Frame))
        => (proved = FALSE /\ min_stride = 1)

Wit_C3 ==
    /\ pc = "failed" /\ ~ignore_border /\ proved = FALSE
    /\ Frame.width = 3 /\ Frame.height = 2
    /\ \A L \in Lines(Frame) : \A r \in MaximalRuns(L) :
          RunLen(r) = 1 => (r[2] = Len(L) /\ Len(L) = 3 /\ L[r[1]][4] = 0)
    /\ HasSingleton(Frame)

\* C4: phase 2 returns the smallest non-zero candidate m when m >= 2 and
\* every candidate is a multiple of m, and 1 in every other case.
Thm_C4 ==
    pc = "done" =>
        /\ LET nz == strides \ {0}
           IN  IF nz = {} THEN min_stride = 1
               ELSE \E m \in nz :
                      /\ \A k \in nz : m <= k
                      /\ min_stride = IF m >= 2 /\ \A k \in strides : k % m = 0
                                      THEN m ELSE 1
        /\ strides = {4, 8, 12} => min_stride = 4
        /\ strides = {4, 6} => min_stride = 1

Wit_C4 == pc = "done" /\ strides = {0, 4, 8, 12} /\ min_stride = 4

\* C6: every candidate phase 1 inserts is the length of a closed run with
\* alpha > 0, and a run of alpha = 0 and length 1 that is not
\* border-suppressed makes phase 1 return false.
Thm_C6 ==
    pc # "start" =>
        /\ \A v \in strides :
              \E L \in Lines(Frame) : \E r \in MaximalRuns(L) :
                  /\ RunLen(r) = v
                  /\ L[r[1]][4] > 0
                  /\ ~Suppressed(ignore_border, L, r)
        /\ (\E L \in Lines(Frame) : \E r \in MaximalRuns(L) :
                  /\ RunLen(r) = 1
                  /\ L[r[1]][4] = 0
                  /\ ~Suppressed(ignore_border, L, r))
            => proved = FALSE

Wit_C6 ==
    /\ pc = "done" /\ proved = TRUE /\ strides = {2}
    /\ \E L \in Lines(Frame) : \E r \in MaximalRuns(L) :
          RunLen(r) = 2 /\ L[r[1]][4] = 0 /\ ~Suppressed(ignore_border, L, r)

\* What a frame yields when scanned on its own.
Own(f) == get_smallest_stride_phase1(f, {}, ignore_border)
Disproving == {i \in 1..Len(frames) : ~Own(frames[i]).ok}

\* C5: in full mode the result is 1 as soon as a frame's scan returns false,
\* and no later frame is scanned; otherwise it is phase 2 of the union of the
\* sets the frames yield on their own ({4,8}, {4}, {8} give 4).
Thm_C5 ==
    pc # "start" =>
        IF Disproving # {}
        THEN /\ min_stride = 1
             /\ iter \in Disproving
             /\ \A i \in Disproving : iter <= i
        ELSE /\ iter = Len(frames)
             /\ min_stride = get_smallest_stride_phase2(
                                 UNION {Own(frames[i]).strides : i \in 1..Len(frames)})
             /\ (/\ Len(frames) = 3
                 /\ Own(frames[1]).strides = {4, 8}
                 /\ Own(frames[2]).strides = {4}
                 /\ Own(frames[3]).strides = {8}) => min_stride = 4

Wit_C5 ==
    /\ pc = "done" /\ Len(frames) = 3 /\ iter = 3 /\ min_stride = 4
    /\ Own(frames[1]).strides = {4, 8}
    /\ Own(frames[2]).strides = {4}
    /\ Own(frames[3]).strides = {8}

\* C7: every stride handed to the caller (still image, full mode,
\* first-frame-only mode) is 1 or at least 2, and first-frame-only mode on an
\* empty sequence yields 1.
Orig_C7 ==
    pc # "start" =>
        /\ min_stride >= 1
        /\ (mode = "gif" /\ only_analyze_first_frame /\ frames = <<>>)
              => min_stride = 1

\* C8 as stated: phase 1 returns true with no candidate only for a 0x0 or a
\* 1x1 frame.
Orig_C8 ==
    (pc # "start" /\ proved = TRUE /\ strides = {}) => Degenerate(Frame)

\* C8, amended: when phase 1 returns true with no candidate, every maximal
\* run of alpha > 0 of the frame is border-suppressed; with
\* ignore_border = false the frame has no pixel of alpha > 0.
Thm_C8 ==
    (pc # "start" /\ proved = TRUE /\ strides = {})
        => /\ \A L \in Lines(Frame) : \A r \in MaximalRuns(L) :
                 L[r[1]][4] > 0 => Suppressed(ignore_border, L, r)
           /\ ~ignore_border => \A k \in DOMAIN Frame.px : Frame.px[k][4] = 0

Wit_C8 ==
    /\ pc = "failed" /\ proved = TRUE /\ strides = {} /\ ~ignore_border
    /\ Frame.width = 3 /\ Frame.height = 2

\* C9: a 0x0 frame and a 1x1 frame give the stride 1 and leave the candidate
\* set empty, with either value of ignore_border.
Thm_C9 ==
    (pc # "start" /\ Degenerate(Frame))
        => (min_stride = 1 /\ strides = {} /\ pc = "failed")

Wit_C9 ==
    /\ pc = "failed" /\ Frame.width = 1 /\ Frame.height = 1
    /\ Frame.px[1][4] > 0 /\ ~ignore_border /\ proved = FALSE

\* C10: a stride s >= 2 returned with ignore_border = false divides the
\* width and the height of the frame, so the new size loses no pixel.
Orig_C10 ==
    (pc = "done" /\ ~ignore_border)
        => /\ Frame.width % min_stride = 0
           /\ Frame.height % min_stride = 0
           /\ new_width * min_stride = Frame.width
           /\ new_height * min_stride = Frame.height

====
